---- MODULE Spec2Model ----
(***************************************************************************)
(* Model of the system monitoring dashboard (src/main.py).                 *)
(*                                                                         *)
(* The process keeps one module-level store, history, of four deques of    *)
(* maxlen 20.  A Dash callback (update_combined_graph in mode 'one',       *)
(* update_separate_graphs otherwise) runs on every firing of a client's    *)
(* interval timer.  The development server serves every request on a       *)
(* thread of its own, so the callback bodies of several requests may       *)
(* interleave between any two accesses of the shared store; each single    *)
(* deque append and each single list(deque) copy is one step.  So is each  *)
(* of the three provider calls of get_system_stats: a thread waits in      *)
(* them (cpu_percent for a second) while other requests are served.        *)
(*                                                                         *)
(* Every value placed in the store is tagged with the number of the        *)
(* request that produced it (field id); the time entries also carry the    *)
(* clock value they were formatted from (field at).  The tags stand for    *)
(* the identity of the Python objects and are never read by an action.     *)
(***************************************************************************)
EXTENDS Integers, Sequences, FiniteSets

\* ---- bounds of the model ----
NumThreads == 2       \* request threads that may run a callback at once
MaxTicks == 2         \* timer firings in a run of Spec
LongTicks == 22       \* timer firings in a run of SpecLong
FreeTicks == 3        \* timer firings in a run of SpecFree
MaxFail == 2          \* failing samples in a run of SpecLong

\* ---- program constants ----
N == 20               \* deque(maxlen=20)
SecondsPerDay == 86400  \* '%H:%M:%S' keeps the time of day only

Threads == 1..NumThreads
Keys == {"ram", "cpu", "disk", "time"}
\* what a provider call does: it returns a percentage v, or it raises
Value(v) == [kind |-> "value", v |-> v]
Raise == [kind |-> "raise", v |-> 0]
\* percentages a provider call may return (in range, and out of range)
Readings == {100, 101}
Outcomes == {Value(v) : v \in Readings} \cup {Raise}
\* clock values (seconds) at process start: midnight, and shortly before it
StartTimes == {0, SecondsPerDay - 2}
Modes == {"one", "multiple"}

VARIABLES
    history,       \* the four deques: [ram, cpu, disk, time]
    appended,      \* per deque, everything ever appended to it (history of the run)
    mode,          \* sys.argv[1], fixed at start
    now,           \* the wall clock, in seconds
    fired,         \* number of timer firings so far
    failedIds,     \* the requests in whose sample a provider call raised
    overlaps,      \* firings that arrived while another callback was running
    pc,            \* per thread: position in the callback
    id,            \* per thread: number of the request being served
    fetched,       \* per thread: how many provider calls the sample made
    stats,         \* per thread: what the provider calls made so far did
    data,          \* per thread: local `data`
    current_time,  \* per thread: local `current_time` (an entry, or NoTime)
    reads,         \* per thread: the list(history[..]) copies taken so far
    seen,          \* per thread: number of appends the store had at each copy
    out            \* per thread: the value the callback returned

vars == <<history, appended, mode, now, fired, failedIds, overlaps,
          pc, id, fetched, stats, data, current_time, reads, seen, out>>

globals == <<history, appended, mode, now, fired, failedIds, overlaps>>

\* ---- pure parts of the program ----

\* the empty dict {}
EmptyDict == << >>

NoTime == [id |-> 0, v |-> << >>, at |-> 0]

\* a deque without maxlen: append never drops anything
DequeAppendUnbounded(q, e) == Append(q, e)

\* a deque that counts its capacity one short: it drops at N - 1 entries
DequeAppendEarly(q, e) ==
    IF Len(q) >= N - 1 THEN Append(Tail(q), e) ELSE Append(q, e)

\* a full deque that starts over: it is cleared before the append
DequeAppendReset(q, e) ==
    IF Len(q) = N THEN << e >> ELSE Append(q, e)

\* a full deque that drops from the right end instead of the left
DequeAppendDropNewest(q, e) ==
    IF Len(q) = N THEN Append(SubSeq(q, 1, N - 1), e) ELSE Append(q, e)

\* deque(maxlen=N).append(e): drops the leftmost element when full
DequeAppend(q, e) ==
    IF Len(q) = N THEN Append(Tail(q), e) ELSE Append(q, e)

\* datetime.strftime('%H:%M:%S') of the clock value t: <<HH, MM, SS>>
Strftime(t) ==
    << (t \div 3600) % 24, (t \div 60) % 60, t % 60 >>

\* some provider call of s raised
Raised(s) == \E i \in 1..Len(s) : s[i] = Raise

\* get_system_stats() without the except clause's `return {}`: the readings
\* taken before the failing call are returned, the others as 0
GetSystemStatsPartial(s) ==
    IF s[1] = Raise
    THEN EmptyDict
    ELSE [ram |-> s[1].v,
          cpu |-> IF Len(s) >= 2 THEN s[2].v ELSE 0,
          disk |-> IF Len(s) >= 3 THEN s[3].v ELSE 0]

\* what get_system_stats() returns when its provider calls did s: the dict
\* of the three readings, or {} from the except clause
GetSystemStats(s) ==
    IF Raised(s)
    THEN EmptyDict
    ELSE [ram |-> s[1].v, cpu |-> s[2].v, disk |-> s[3].v]

\* number of appends the store has received (deque mutation count)
Version == Len(appended.ram) + Len(appended.cpu)
           + Len(appended.disk) + Len(appended.time)

\* thread t is between the first and the last step of a callback
Running(t) == pc[t] # "idle"

\* go.Scatter(x=..., y=..., mode='lines+markers', name=...)
Scatter(name, x, y) ==
    [name |-> name, x |-> x, y |-> y, mode |-> "lines+markers"]

\* {'data': [...], 'layout': go.Layout(title=..., xaxis=..., yaxis=...)}
Figure(traces, title) ==
    [data |-> traces, title |-> title, xaxis |-> "Time", yaxis |-> "Percentage"]

\* the order in which the callbacks copy the deques: x before y, trace by trace
ReadOrder == <<"time", "ram", "time", "cpu", "time", "disk">>

\* update_combined_graph: the figure built from the six copies r
CombinedFigure(r) ==
    << Figure(<< Scatter("RAM Usage (%)", r[1], r[2]),
                 Scatter("CPU Usage (%)", r[3], r[4]),
                 Scatter("Disk Usage (%)", r[5], r[6]) >>,
              "RAM, CPU, and Disk Usage Over Time") >>

\* update_separate_graphs with the CPU chart plotted against the RAM values
SeparateFiguresWrongAxis(r) ==
    << Figure(<< Scatter("RAM Usage (%)", r[1], r[2]) >>, "RAM Usage Over Time"),
       Figure(<< Scatter("CPU Usage (%)", r[2], r[4]) >>, "CPU Usage Over Time"),
       Figure(<< Scatter("Disk Usage (%)", r[5], r[6]) >>, "Disk Usage Over Time") >>

\* update_separate_graphs: the three figures built from the six copies r
SeparateFigures(r) ==
    << Figure(<< Scatter("RAM Usage (%)", r[1], r[2]) >>, "RAM Usage Over Time"),
       Figure(<< Scatter("CPU Usage (%)", r[3], r[4]) >>, "CPU Usage Over Time"),
       Figure(<< Scatter("Disk Usage (%)", r[5], r[6]) >>, "Disk Usage Over Time") >>

\* what the callback of mode md returns from the copies r
Render(md, r) ==
    IF md = "one" THEN CombinedFigure(r) ELSE SeparateFigures(r)

\* `if not data: return {}` (mode 'one'), `return {}, {}, {}` (otherwise)
EmptyResponse(md) ==
    IF md = "one" THEN << EmptyDict >> ELSE << EmptyDict, EmptyDict, EmptyDict >>

\* ---- state ----

Init ==
    /\ history = [k \in Keys |-> << >>]
    /\ appended = [k \in Keys |-> << >>]
    /\ mode \in Modes
    /\ now \in StartTimes
    /\ fired = 0
    /\ failedIds = {}
    /\ overlaps = 0
    /\ pc = [t \in Threads |-> "idle"]
    /\ id = [t \in Threads |-> 0]
    /\ fetched = [t \in Threads |-> 0]
    /\ stats = [t \in Threads |-> << >>]
    /\ data = [t \in Threads |-> EmptyDict]
    /\ current_time = [t \in Threads |-> NoTime]
    /\ reads = [t \in Threads |-> << >>]
    /\ seen = [t \in Threads |-> << >>]
    /\ out = [t \in Threads |-> << >>]

\* ---- the callback, step by step ----

\* The interval timer of some client fires, some time after the firing
\* before it: the request is served by a free request thread (the first one;
\* the threads are interchangeable).  At most `ticks` firings, at most
\* `overlap` of them while another request is being served.
Fire(t, ticks, overlap) ==
    LET busy == \E u \in Threads \ {t} : Running(u) IN
    /\ pc[t] = "idle"
    /\ \A u \in Threads : u < t => pc[u] # "idle"
    /\ fired < ticks
    /\ busy => overlaps < overlap
    /\ fired' = fired + 1
    /\ now' = now + 1
    /\ overlaps' = IF busy THEN overlaps + 1 ELSE overlaps
    /\ id' = [id EXCEPT ![t] = fired + 1]
    /\ pc' = [pc EXCEPT ![t] = "sample"]
    /\ UNCHANGED <<history, appended, mode, failedIds,
                   fetched, stats, data, current_time, reads, seen, out>>

\* a provider call without the try/except around it: when it raises, the
\* request thread ends with the exception and no response is built
ProviderCallUncaught(t, at, S, next) ==
    /\ pc[t] = at
    /\ \E o \in S :
        /\ fetched' = [fetched EXCEPT ![t] = @ + 1]
        /\ stats' = [stats EXCEPT ![t] = Append(@, o)]
        /\ failedIds' = IF o = Raise THEN failedIds \cup {id[t]} ELSE failedIds
        /\ pc' = [pc EXCEPT ![t] = IF o = Raise THEN "crashed" ELSE next]
    /\ UNCHANGED <<history, appended, mode, now, fired, overlaps,
                   id, data, current_time, reads, seen, out>>

\* a provider call that is made once more when it raises (and raises again)
ProviderCallRetry(t, at, S, next) ==
    /\ pc[t] = at
    /\ \E o \in S :
        /\ fetched' = [fetched EXCEPT ![t] = IF o = Raise THEN @ + 2 ELSE @ + 1]
        /\ stats' = [stats EXCEPT ![t] = Append(@, o)]
        /\ failedIds' = IF o = Raise THEN failedIds \cup {id[t]} ELSE failedIds
        /\ pc' = [pc EXCEPT ![t] = IF o = Raise THEN "stats" ELSE next]
    /\ UNCHANGED <<history, appended, mode, now, fired, overlaps,
                   id, data, current_time, reads, seen, out>>

\* One provider call of the try block of get_system_stats, the statement at
\* position `at`: it behaves as some o of S.  When it returns, the function
\* goes on with the statement `next`; when it raises, with the except clause,
\* which logs and returns.  The thread may wait in the call (cpu_percent
\* blocks for its interval) while other requests are served.
ProviderCall(t, at, S, next) ==
    /\ pc[t] = at
    /\ \E o \in S :
        /\ fetched' = [fetched EXCEPT ![t] = @ + 1]
        /\ stats' = [stats EXCEPT ![t] = Append(@, o)]
        /\ failedIds' = IF o = Raise THEN failedIds \cup {id[t]} ELSE failedIds
        /\ pc' = [pc EXCEPT ![t] = IF o = Raise THEN "stats" ELSE next]
    /\ UNCHANGED <<history, appended, mode, now, fired, overlaps,
                   id, data, current_time, reads, seen, out>>

\* memory = psutil.virtual_memory(); ram = memory.percent
VirtualMemory(t, S) == ProviderCall(t, "sample", S, "cpu_percent")

\* cpu = psutil.cpu_percent(interval=1)
CpuPercent(t, S) == ProviderCall(t, "cpu_percent", S, "disk_usage")

\* disk = psutil.disk_usage('/').percent
DiskUsage(t, S) == ProviderCall(t, "disk_usage", S, "stats")

\* get_system_stats returns; data = get_system_stats(); if not data: return {}
Sample(t) ==
    /\ pc[t] = "stats"
    /\ LET got == GetSystemStats(stats[t]) IN
        /\ data' = [data EXCEPT ![t] = got]
        /\ IF got = EmptyDict
           THEN /\ out' = [out EXCEPT ![t] = EmptyResponse(mode)]
                /\ pc' = [pc EXCEPT ![t] = "done"]
           ELSE /\ pc' = [pc EXCEPT ![t] = "stamp"]
                /\ UNCHANGED out
    /\ UNCHANGED <<globals, id, fetched, stats, current_time, reads, seen>>

\* current_time = datetime.now().strftime('%H:%M:%S')
Stamp(t) ==
    /\ pc[t] = "stamp"
    /\ current_time' = [current_time EXCEPT
                           ![t] = [id |-> id[t], v |-> Strftime(now), at |-> now]]
    /\ pc' = [pc EXCEPT ![t] = "ram"]
    /\ UNCHANGED <<globals, id, fetched, stats, data, reads, seen, out>>

\* an append that is made twice
PushTwice(k, e) ==
    /\ history' = [history EXCEPT ![k] = DequeAppend(DequeAppend(@, e), e)]
    /\ appended' = [appended EXCEPT ![k] = Append(Append(@, e), e)]

\* history[k].append(e)
Push(k, e) ==
    /\ history' = [history EXCEPT ![k] = DequeAppend(@, e)]
    /\ appended' = [appended EXCEPT ![k] = Append(@, e)]

\* history['ram'].append(data['RAM Usage (%)'])
AppendRam(t) ==
    /\ pc[t] = "ram"
    /\ Push("ram", [id |-> id[t], v |-> data[t].ram])
    /\ pc' = [pc EXCEPT ![t] = "cpu"]
    /\ UNCHANGED <<mode, now, fired, failedIds, overlaps,
                   id, fetched, stats, data, current_time, reads, seen, out>>

\* history['cpu'].append(data['CPU Usage (%)'])
AppendCpu(t) ==
    /\ pc[t] = "cpu"
    /\ Push("cpu", [id |-> id[t], v |-> data[t].cpu])
    /\ pc' = [pc EXCEPT ![t] = "disk"]
    /\ UNCHANGED <<mode, now, fired, failedIds, overlaps,
                   id, fetched, stats, data, current_time, reads, seen, out>>

\* the disk append present in update_combined_graph only: the separate
\* callback goes on without it
AppendDiskCombinedOnly(t) ==
    /\ pc[t] = "disk"
    /\ IF mode = "one"
       THEN /\ history' = [history EXCEPT
                              !["disk"] = DequeAppend(@, [id |-> id[t], v |-> data[t].disk])]
            /\ appended' = [appended EXCEPT
                              !["disk"] = Append(@, [id |-> id[t], v |-> data[t].disk])]
       ELSE UNCHANGED <<history, appended>>
    /\ pc' = [pc EXCEPT ![t] = "time"]
    /\ UNCHANGED <<mode, now, fired, failedIds, overlaps,
                   id, fetched, stats, data, current_time, reads, seen, out>>

\* history['disk'].append(data['Disk Usage (%)'])
AppendDisk(t) ==
    /\ pc[t] = "disk"
    /\ Push("disk", [id |-> id[t], v |-> data[t].disk])
    /\ pc' = [pc EXCEPT ![t] = "time"]
    /\ UNCHANGED <<mode, now, fired, failedIds, overlaps,
                   id, fetched, stats, data, current_time, reads, seen, out>>

\* the time append when the figures hold the deque itself instead of a
\* list(...) copy of it: every x list taken so far changes with the deque
AppendTimeAliased(t) ==
    /\ pc[t] = "time"
    /\ Push("time", current_time[t])
    /\ reads' = [u \in Threads |->
                    [i \in 1..Len(reads[u]) |->
                        IF ReadOrder[i] = "time"
                        THEN DequeAppend(history["time"], current_time[t])
                        ELSE reads[u][i]]]
    /\ pc' = [pc EXCEPT ![t] = "render"]
    /\ UNCHANGED <<mode, now, fired, failedIds, overlaps,
                   id, fetched, stats, data, current_time, seen, out>>

\* history['time'].append(current_time)
AppendTime(t) ==
    /\ pc[t] = "time"
    /\ Push("time", current_time[t])
    /\ pc' = [pc EXCEPT ![t] = "render"]
    /\ UNCHANGED <<mode, now, fired, failedIds, overlaps,
                   id, fetched, stats, data, current_time, reads, seen, out>>

\* the next list(history[..]) of the figure under construction
ReadHistory(t) ==
    /\ pc[t] = "render"
    /\ Len(reads[t]) < Len(ReadOrder)
    /\ reads' = [reads EXCEPT ![t] = Append(@, history[ReadOrder[Len(@) + 1]])]
    /\ seen' = [seen EXCEPT ![t] = Append(@, Version)]
    /\ UNCHANGED <<globals, pc, id, fetched, stats, data, current_time, out>>

\* return combined_figure / return ram_figure, cpu_figure, disk_figure
Return(t) ==
    /\ pc[t] = "render"
    /\ Len(reads[t]) = Len(ReadOrder)
    /\ out' = [out EXCEPT ![t] = Render(mode, reads[t])]
    /\ pc' = [pc EXCEPT ![t] = "done"]
    /\ UNCHANGED <<globals, id, fetched, stats, data, current_time, reads, seen>>

\* the response is sent and the request thread ends
Deliver(t) ==
    /\ pc[t] = "done"
    /\ pc' = [pc EXCEPT ![t] = "idle"]
    /\ id' = [id EXCEPT ![t] = 0]
    /\ fetched' = [fetched EXCEPT ![t] = 0]
    /\ stats' = [stats EXCEPT ![t] = << >>]
    /\ data' = [data EXCEPT ![t] = EmptyDict]
    /\ current_time' = [current_time EXCEPT ![t] = NoTime]
    /\ reads' = [reads EXCEPT ![t] = << >>]
    /\ seen' = [seen EXCEPT ![t] = << >>]
    /\ out' = [out EXCEPT ![t] = << >>]
    /\ UNCHANGED globals

\* ---- specifications ----

\* The readings of the k-th request: k percent from every provider call,
\* unless the call raises.
Scripted(t) == {Value(id[t]), Raise}

\* Any interleaving of the request threads, any call raising.
Next ==
    \E t \in Threads :
        \/ Fire(t, MaxTicks, MaxTicks)
        \/ VirtualMemory(t, Scripted(t))
        \/ CpuPercent(t, Scripted(t))
        \/ DiskUsage(t, Scripted(t))
        \/ Sample(t)
        \/ Stamp(t)
        \/ AppendRam(t)
        \/ AppendCpu(t)
        \/ AppendDisk(t)
        \/ AppendTime(t)
        \/ ReadHistory(t)
        \/ Return(t)
        \/ Deliver(t)

Spec == Init /\ [][Next]_vars

\* the steps of the callback that thread t runs once its request has arrived
Step(t) ==
    \/ VirtualMemory(t, Scripted(t))
    \/ CpuPercent(t, Scripted(t))
    \/ DiskUsage(t, Scripted(t))
    \/ Sample(t)
    \/ Stamp(t)
    \/ AppendRam(t)
    \/ AppendCpu(t)
    \/ AppendDisk(t)
    \/ AppendTime(t)
    \/ ReadHistory(t)
    \/ Return(t)
    \/ Deliver(t)

\* Spec with every request thread scheduled again and again: a thread that
\* can take a step of its callback eventually takes it (the provider calls
\* return or raise, and the callback waits for nothing else).
SpecFair == Spec /\ \A t \in Threads : WF_vars(Step(t))

\* Long runs, past the capacity of the deques, one tick at a time (a single
\* client, whose timer fires every five seconds): at most MaxFail samples fail.
LongOutcomes(t) ==
    IF Cardinality(failedIds) < MaxFail THEN Scripted(t) ELSE {Value(id[t])}

NextLong ==
    \E t \in Threads :
        \/ Fire(t, LongTicks, 0)
        \/ VirtualMemory(t, LongOutcomes(t))
        \/ CpuPercent(t, LongOutcomes(t))
        \/ DiskUsage(t, LongOutcomes(t))
        \/ Sample(t)
        \/ Stamp(t)
        \/ AppendRam(t)
        \/ AppendCpu(t)
        \/ AppendDisk(t)
        \/ AppendTime(t)
        \/ ReadHistory(t)
        \/ Return(t)
        \/ Deliver(t)

SpecLong == Init /\ [][NextLong]_vars

\* Any provider behaviour (any reading of Readings, any call raising), one
\* tick at a time.
NextFree ==
    \E t \in Threads :
        \/ Fire(t, FreeTicks, 0)
        \/ VirtualMemory(t, Outcomes)
        \/ CpuPercent(t, Outcomes)
        \/ DiskUsage(t, Outcomes)
        \/ Sample(t)
        \/ Stamp(t)
        \/ AppendRam(t)
        \/ AppendCpu(t)
        \/ AppendDisk(t)
        \/ AppendTime(t)
        \/ ReadHistory(t)
        \/ Return(t)
        \/ Deliver(t)

SpecFree == Init /\ [][NextFree]_vars

\* ---- properties ----

Metrics == {"ram", "cpu", "disk"}

\* thread t has made some but not all of the four appends of its tick
MidRecord(t) == pc[t] \in {"cpu", "disk", "time"}

\* no tick is between its first and its last append
Quiescent == \A t \in Threads : ~MidRecord(t)

SameLengths == \A k \in Keys : Len(history[k]) = Len(history["ram"])

\* the last n elements of q
LastN(q, n) == SubSeq(q, Len(q) - n + 1, Len(q))

\* C1: the four sequences never hold more than N entries, and whenever no
\* tick is in the middle of its four appends (so after any sequence of
\* successful and failed ticks) they have the same length.
C1_EqualBoundedLengths ==
    /\ \A k \in Keys : Len(history[k]) <= N
    /\ Quiescent => SameLengths

\* C1 witness: the store is full after more than N ticks, some of them failed.
C1_Witness ==
    /\ \A t \in Threads : pc[t] = "idle"
    /\ fired > N
    /\ failedIds # {}
    /\ \A k \in Keys : Len(history[k]) = N

\* C2: whenever a callback is about to copy a deque for its figure, the four
\* sequences have equal lengths (no reader sees a half-recorded sample).
C2_ReadersSeeWholeSamples ==
    \A t \in Threads :
        (pc[t] = "render" /\ Len(reads[t]) < Len(ReadOrder)) => SameLengths

\* C3: at most one tick is between its first and its last append.
C3_SingleWriter ==
    Cardinality({t \in Threads : MidRecord(t)}) <= 1

\* C4: whenever no tick is in the middle of its appends, the entries at each
\* index of the four sequences come from the same tick.
C4_IndexAligned ==
    (Quiescent /\ SameLengths) =>
        \A i \in 1..Len(history["ram"]) :
            \A k \in Keys : history[k][i].id = history["ram"][i].id

\* C5 as stated: after more than N ticks have been processed, every sequence
\* has length N and holds the last N values recorded.
C5_AfterManyTicks ==
    ((\A t \in Threads : pc[t] = "idle") /\ fired > N) =>
        \A k \in Keys :
            /\ Len(history[k]) = N
            /\ history[k] = LastN(appended[k], N)

\* C5 amended: after more than N samples have been recorded (failed ticks
\* not counted), every sequence has length N and holds, oldest first, the
\* last N values appended to it.
C5_AfterManyRecorded ==
    \A k \in Keys :
        Len(appended[k]) > N =>
            /\ Len(history[k]) = N
            /\ history[k] = LastN(appended[k], N)

\* C5 witness: 21 samples recorded and one tick failed; the first sample is gone.
C5_Witness ==
    /\ \A t \in Threads : pc[t] = "idle"
    /\ failedIds # {}
    /\ \A k \in Keys : Len(appended[k]) = N + 1
    /\ history["ram"][1].id = appended["ram"][2].id

\* C6: an append to a full sequence removes exactly its oldest entry: the
\* entries at indices 2..N move to 1..N-1 in the same order and the new
\* entry, the one of the appending tick, is the last.
C6_FifoEviction ==
    [][\A k \in Keys :
        (Len(history[k]) = N /\ history'[k] # history[k]) =>
            /\ Len(history'[k]) = N
            /\ SubSeq(history'[k], 1, N - 1) = Tail(history[k])
            /\ \E t \in Threads : pc[t] = k /\ history'[k][N].id = id[t]
            /\ history'[k][N] = appended'[k][Len(appended'[k])]
      ]_vars

\* C6 witness: the 21st sample is recorded: S_2 is the oldest, S_21 the newest.
C6_Witness ==
    /\ Quiescent
    /\ \A k \in Keys :
        /\ Len(appended[k]) = N + 1
        /\ history[k][1] = appended[k][2]
        /\ history[k][N] = appended[k][N + 1]

\* C7: a tick in whose sample any provider call raised emits no sample and
\* appends nothing: its local data is empty, it returns at once, and no
\* entry of any sequence comes from it.
C7_FailureNoOp ==
    /\ \A t \in Threads :
        id[t] \in failedIds => (data[t] = EmptyDict /\ pc[t] \in {"stats", "done"})
    /\ \A k \in Keys : \A i \in 1..Len(appended[k]) :
        appended[k][i].id \notin failedIds

\* C7 witness: the disk call raised after the memory and CPU calls returned,
\* on a tick that follows a recorded one.
C7_Witness ==
    \E t \in Threads :
        /\ pc[t] = "done"
        /\ id[t] \in failedIds
        /\ fetched[t] = 3
        /\ Len(history["ram"]) > 0

\* C8: every stored percentage is in [0,100].
C8_StoredInRange ==
    \A k \in Metrics : \A i \in 1..Len(history[k]) :
        history[k][i].v >= 0 /\ history[k][i].v <= 100

\* the figures of response r that carry no series
EmptyFigures(r) == {i \in 1..Len(r) : r[i] = EmptyDict}

\* C9: a tick whose sampling failed returns the samples already in the
\* store, and an empty payload only when the store is empty.
C9_FailureKeepsSnapshot ==
    \A t \in Threads :
        (pc[t] = "done" /\ id[t] \in failedIds /\ Len(history["time"]) > 0) =>
            /\ EmptyFigures(out[t]) = {}
            /\ \A i \in 1..Len(out[t]) : \A j \in 1..Len(out[t][i].data) :
                out[t][i].data[j].x = history["time"]

\* the x lists and the y lists of the series of response r, in order
XAxes(r) == [i \in 1..Len(r) |-> [j \in 1..Len(r[i].data) |-> r[i].data[j].x]]
YAxes(r) == [i \in 1..Len(r) |-> [j \in 1..Len(r[i].data) |-> r[i].data[j].y]]
Names(r) == [i \in 1..Len(r) |-> [j \in 1..Len(r[i].data) |-> r[i].data[j].name]]

\* thread t returned a figure all of whose copies were taken from the store
\* as it is now
RenderedFromStore(t) ==
    /\ pc[t] = "done"
    /\ Len(reads[t]) = Len(ReadOrder)
    /\ \A i \in 1..Len(seen[t]) : seen[t][i] = Version

\* C10: rendered from the same history, the combined callback returns one
\* figure with the three series RAM, CPU, Disk and the separate callback
\* three figures with one of these series each; every x-axis is the store's
\* time sequence, so all of them are equal within and across the modes, and
\* the y values are the store's ram, cpu and disk sequences in both.
C10_ModeIndependence ==
    \A t \in Threads :
        RenderedFromStore(t) =>
            LET c == CombinedFigure(reads[t])
                s == SeparateFigures(reads[t])
                x == history["time"]
                ys == << history["ram"], history["cpu"], history["disk"] >>
                names == << "RAM Usage (%)", "CPU Usage (%)", "Disk Usage (%)" >>
            IN  /\ out[t] = IF mode = "one" THEN c ELSE s
                /\ XAxes(c) = << << x, x, x >> >>
                /\ XAxes(s) = << << x >>, << x >>, << x >> >>
                /\ YAxes(c) = << ys >>
                /\ YAxes(s) = << << ys[1] >>, << ys[2] >>, << ys[3] >> >>
                /\ Names(c) = << names >>
                /\ Names(s) = << << names[1] >>, << names[2] >>, << names[3] >> >>

\* C10 witness: a separate-mode tick returned its three figures from a store
\* of two samples while another tick was being served.
C10_Witness ==
    \E t \in Threads :
        /\ RenderedFromStore(t)
        /\ mode = "multiple"
        /\ Len(history["time"]) = 2
        /\ \E u \in Threads \ {t} : pc[u] # "idle"

\* every request thread is idle: no tick is in progress
AllIdle == \A t \in Threads : pc[t] = "idle"

\* the requests 1..n whose sample did not fail, oldest first
RECURSIVE Successful(_)
Successful(n) ==
    IF n = 0 THEN << >>
    ELSE IF n \in failedIds THEN Successful(n - 1)
         ELSE Append(Successful(n - 1), n)

\* the last N elements of q, or all of q
Newest(q) == IF Len(q) > N THEN LastN(q, N) ELSE q

\* The store that the outcomes of the ticks so far determine when ticks do
\* not overlap: which requests failed, the reading k of request k, and the
\* clock, which stood at now - fired at the start and advanced by one at
\* every firing.  The presentation mode does not occur in it.
StoreOfOutcomes ==
    LET kept == Newest(Successful(fired))
        start == now - fired
    IN  [k \in Keys |->
            IF k = "time"
            THEN [i \in 1..Len(kept) |->
                    [id |-> kept[i], v |-> Strftime(start + kept[i]),
                     at |-> start + kept[i]]]
            ELSE [i \in 1..Len(kept) |-> [id |-> kept[i], v |-> kept[i]]]]

\* C11: after every tick the four sequences are the ones determined by the
\* tick outcomes alone (samples, failures, timestamps), in combined mode and
\* in separate mode alike: the mode never affects the store.
C11_StoreIgnoresMode ==
    AllIdle => history = StoreOfOutcomes

\* C11 witness: separate mode, 22 ticks of which the second failed.
C11_Witness ==
    /\ AllIdle
    /\ mode = "multiple"
    /\ fired = N + 2
    /\ failedIds = {2}

\* the positions of a request thread: Idle, and the steps of Updating
Positions == {"idle", "sample", "cpu_percent", "disk_usage", "stats", "stamp",
              "ram", "cpu", "disk", "time", "render", "done"}

\* C12: a thread leaves Idle only by a timer firing, which puts it at the
\* start of the callback; a thread that is Updating eventually is Idle again;
\* a provider call that raises ends the sampling, and the tick then goes
\* straight to the return, both leaving the store as it is; no thread is
\* ever anywhere but Idle or at a step of the callback, and as long as
\* firings remain another tick can start.
C12_TickStateMachine ==
    /\ [][\A t \in Threads :
            /\ (pc[t] = "idle" /\ pc'[t] # "idle") =>
                    (pc'[t] = "sample" /\ fired' = fired + 1)
            /\ (id[t] \notin failedIds /\ id[t] \in failedIds') =>
                    (pc'[t] = "stats" /\ history' = history)
            /\ (pc[t] = "stats" /\ id[t] \in failedIds /\ pc'[t] # pc[t]) =>
                    (pc'[t] = "done" /\ history' = history)
         ]_vars
    /\ \A t \in Threads : (pc[t] # "idle") ~> (pc[t] = "idle")
    /\ [](\A t \in Threads : pc[t] \in Positions)
    /\ []((fired < MaxTicks /\ \E t \in Threads : pc[t] = "idle")
            => ENABLED (\E t \in Threads : Fire(t, MaxTicks, MaxTicks)))

\* C12 witness: the first tick failed and was answered; the second is sampling.
C12_Witness ==
    /\ 1 \in failedIds
    /\ \E t \in Threads : pc[t] = "sample" /\ id[t] = 2
    /\ \A t \in Threads : pc[t] \in {"idle", "sample"}

\* C13: in every step every sequence stays as it is, or grows by one entry
\* at its tail, or (being full) loses its oldest entry while a new one is
\* put at its tail; no step shrinks or clears a sequence.
C13_OnlyEvictionRemoves ==
    [][\A k \in Keys :
        \/ history'[k] = history[k]
        \/ /\ Len(history[k]) < N
           /\ Len(history'[k]) = Len(history[k]) + 1
           /\ SubSeq(history'[k], 1, Len(history[k])) = history[k]
        \/ /\ Len(history[k]) = N
           /\ Len(history'[k]) = N
           /\ SubSeq(history'[k], 1, N - 1) = Tail(history[k])
      ]_vars

\* C13 witness: a tick is putting the second sample beyond the capacity: the
\* ram sequence has evicted twice, the others once.
C13_Witness ==
    \E t \in Threads :
        /\ pc[t] = "cpu"
        /\ Len(appended["ram"]) = N + 2
        /\ Len(appended["cpu"]) = N + 1
        /\ Len(history["ram"]) = N
        /\ Len(history["cpu"]) = N

\* C14: the time sequence is in the order in which the clock was read:
\* an earlier index never holds a timestamp taken later than a later index.
C14_Chronological ==
    \A i, j \in 1..Len(history["time"]) :
        i < j => history["time"][i].at <= history["time"][j].at

\* thread t stays within the same request over the step
SameRequest(t) ==
    /\ pc[t] \in {"render", "done"}
    /\ pc'[t] \in {"render", "done"}

\* C15: the lists copied for a figure, and the figures returned, are not
\* changed by any later step, whatever is appended to or evicted from the
\* store meanwhile.
C15_PayloadIsACopy ==
    [][\A t \in Threads :
        SameRequest(t) =>
            /\ \A i \in 1..Len(reads[t]) : reads'[t][i] = reads[t][i]
            /\ pc[t] = "done" => out'[t] = out[t]
      ]_vars

\* C15 witness: a returned figure still shows one point after another tick
\* has recorded a second sample.
C15_Witness ==
    \E t \in Threads :
        /\ pc[t] = "done"
        /\ id[t] \notin failedIds
        /\ \A i \in 1..Len(out[t]) : \A j \in 1..Len(out[t][i].data) :
            /\ Len(out[t][i].data[j].x) = 1
            /\ Len(out[t][i].data[j].y) = 1
        /\ \A k \in Keys : Len(history[k]) = 2

\* how many entries of the sequence q come from request j
EntriesOf(q, j) == Cardinality({i \in 1..Len(q) : q[i].id = j})

\* the requests the entries of q come from, in order
IdsOf(q) == [i \in 1..Len(q) |-> q[i].id]

\* C16: a tick makes at most the three provider calls, once each; a request
\* whose sample failed leaves no entry and any other at most one entry per
\* sequence, holding the readings of its one sample; once all ticks are
\* over, what was appended is the samples of the successful ticks in order,
\* as if the failed ones had never fired.
C16_NoRetry ==
    /\ \A t \in Threads : fetched[t] <= 3
    /\ \A k \in Keys : \A j \in 1..fired :
        /\ EntriesOf(appended[k], j) <= 1
        /\ j \in failedIds => EntriesOf(appended[k], j) = 0
    /\ \A t \in Threads :
        (pc[t] \in {"render", "done"} /\ id[t] \notin failedIds) =>
            \A k \in Metrics :
                \E i \in 1..Len(appended[k]) :
                    appended[k][i] = [id |-> id[t], v |-> data[t][k]]
    /\ AllIdle => \A k \in Keys : IdsOf(appended[k]) = Successful(fired)

\* C16 witness: the first tick failed, the second tick made its three calls
\* and its sample is the only one in the store.
C16_Witness ==
    /\ failedIds = {1}
    /\ \E t \in Threads : pc[t] = "done" /\ id[t] = 2 /\ fetched[t] = 3
    /\ \A k \in Keys : IdsOf(history[k]) = << 2 >>

\* thread t has returned the figures of a successful tick
ReturnedFigures(t) == pc[t] = "done" /\ id[t] \notin failedIds

\* the series of response r: <<figure index, trace index>>
SeriesOf(r) == {<<i, j>> \in (1..Len(r)) \X (1..3) : j <= Len(r[i].data)}

\* C17: in every figure returned by a successful tick every series has as
\* many x values as y values.
C17_PointsArePaired ==
    \A t \in Threads :
        ReturnedFigures(t) =>
            \A p \in SeriesOf(out[t]) :
                Len(out[t][p[1]].data[p[2]].x) = Len(out[t][p[1]].data[p[2]].y)

\* C18: the last point of every series returned by a successful tick is the
\* timestamp and the value that this tick appended.
C18_LastPointIsOwn ==
    \A t \in Threads :
        ReturnedFigures(t) =>
            \A p \in SeriesOf(out[t]) :
                LET x == out[t][p[1]].data[p[2]].x
                    y == out[t][p[1]].data[p[2]].y
                IN  /\ x[Len(x)] = current_time[t]
                    /\ y[Len(y)].id = id[t]

Min(a, b) == IF a <= b THEN a ELSE b

\* no tick is between its firing and the last of its four appends
NoneRecording == \A t \in Threads : pc[t] \in {"idle", "render", "done"}

\* C19: after k successful ticks and any number of failed ones, in any
\* order, every sequence has min(k, N) entries.
C19_LengthIsMinOfSuccesses ==
    NoneRecording =>
        \A k \in Keys :
            Len(history[k]) = Min(fired - Cardinality(failedIds), N)

\* C19 witness: 22 ticks, the last of them building its figure; one of them
\* failed, 21 succeeded, and the sequences hold 20 entries.
C19_Witness ==
    /\ fired = N + 2
    /\ Cardinality(failedIds) = 1
    /\ \E t \in Threads : pc[t] = "render" /\ id[t] = fired
    /\ \A k \in Keys : Len(history[k]) = N

====
